---- MODULE Spec2Model ----
(***************************************************************************)
(* Study session controller of infoman-quizzer (the study page script,    *)
(* src/unnamed/part_000): session initialisation, reveal / rate handlers,  *)
(* loadCard and shuffleArray, together with the DOM flags they set.        *)
(*                                                                         *)
(* Conventions                                                             *)
(*  - currentCardIndex is 0-based as in the source; TLA+ sequences are     *)
(*    1-based, so the card at index i is cards[i + 1].                     *)
(*  - a card is [id, bad]; bad says which side (if any) is not a string,   *)
(*    in which case renderContent throws a TypeError at content.substring  *)
(*    (line 195) after having cleared the target element (line 70).        *)
(*  - hidden[e] is "element e carries the class d-none"; disabled[b] is    *)
(*    the disabled property of a button (group).                           *)
(*  - a click is delivered to a listener when the listener is registered   *)
(*    and the button is not disabled (a disabled button receives no click  *)
(*    event); the class d-none does not stop button.click().               *)
(*  - pending is the list of review requests whose fetch has not settled.  *)
(*  - fetched, presented, submitted, revealCount and lastOp are history    *)
(*    variables: they record what happened and never influence the code.   *)
(***************************************************************************)
EXTENDS Integers, Sequences, FiniteSets

\* ---------------------------------------------------------------- bounds
MaxCards == 3
MaxPending == 2

\* ------------------------------------------------------------ input sets
Ratings == {"again", "good"}
BadSides == {"none", "front", "back"}

\* the due-card lists the server may answer with: ids 1..n in server order
FetchedLists ==
    UNION { { [i \in 1 .. n |-> [id |-> i, bad |-> b[i]]] :
                b \in [1 .. n -> BadSides] } : n \in 0 .. MaxCards }

VARIABLES
    pc,                 \* position of initializeStudySession
    deckId,             \* params.get('deck'): TRUE when a deck id is present
    cards,              \* let cards = []
    currentCardIndex,   \* let currentCardIndex = 0
    isBackVisible,      \* let isBackVisible = false
    handlers,           \* the click listeners have been added
    hidden,             \* classList contains d-none, per element
    disabled,           \* disabled property, per button group
    rendered,           \* card id rendered into frontContentEl / backContentEl, 0 = empty
    text,               \* textContent of the labelled elements
    sessionStatus,      \* k of "Card k/n" in sessionStatusEl, 0 = never set
    requests,           \* GET requests issued so far, in order
    pending,            \* review POSTs in flight
    fetched,            \* history: the due-card list as the server returned it
    presented,          \* history: ids of the cards loadCard selected, in order
    submitted,          \* history: card ids of the reviews that succeeded, in order
    issued,             \* history: card id of the latest review POST, 0 = none
    revealCount,        \* history: effective reveals of the current index
    revealedAtSuccess,  \* history: revealCount at each successful review
    lastOp,             \* history: the last operation and its outcome
    rpc,                \* position of renderContent / parseTableData ("idle" during a session)
    content,            \* renderContent: the content argument
    lastIndex,          \* renderContent: let lastIndex = 0
    fragment,           \* renderContent: the children appended to the fragment
    matches,            \* history: the matches blockRegex.exec returned, in order
    tableContent,       \* parseTableData: the tableContent argument
    parsedTable,        \* parseTableData: the returned value
    ipc,                \* the import page: "idle", "open" or "left" (after the redirect)
    deckContentValue,   \* deckContentEl.value
    importBtnDisabled,  \* importBtn.disabled
    spinnerHidden,      \* the spinner of importBtn carries d-none
    uploads,            \* POSTs to /api/import whose fetch has not settled
    alertShown,         \* what showAlert put into alertContainer last
    redirectScheduled,  \* the setTimeout of the success branch is pending
    importOp            \* history: the last import operation and its outcome

studyVars == << pc, deckId, cards, currentCardIndex, isBackVisible, handlers,
                hidden, disabled, rendered, text, sessionStatus, requests, pending,
                fetched, presented, submitted, issued, revealCount,
                revealedAtSuccess, lastOp >>

renderVars == << rpc, content, lastIndex, fragment, matches, tableContent, parsedTable >>

importVars == << ipc, deckContentValue, importBtnDisabled, spinnerHidden, uploads,
                 alertShown, redirectScheduled, importOp >>

vars == << studyVars, renderVars, importVars >>

\* ------------------------------------------------------------ the page
HiddenEls == {"frontCardEl", "backCardEl", "actionBtn", "ratingButtonsEl",
              "studyAreaEl", "controls", "sessionCompleteEl", "errorMessageEl"}

\* classes of the study page before the script runs
InitialHidden ==
    [e \in HiddenEls |->
        e \in {"backCardEl", "ratingButtonsEl", "sessionCompleteEl", "errorMessageEl"}]

InitialDisabled == [b \in {"actionBtn", "ratingButtons"} |-> FALSE]

InitialRendered == [e \in {"frontContentEl", "backContentEl"} |-> 0]

InitialText ==
    [e \in {"deckTitleEl", "errorMessageEl", "sessionCompleteEl"} |->
        IF e = "sessionCompleteEl" THEN "Session Complete" ELSE ""]

\* ------------------------------------------------------- shuffleArray
\* a swap that loses the old array[i]
SwapOverwrites(array, i, j) == [array EXCEPT ![i] = array[j]]

\* [array[i], array[j]] = [array[j], array[i]]   (1-based positions here)
Swap(array, i, j) == [array EXCEPT ![i] = array[j], ![j] = array[i]]

\* the loop "for (i = length - 1; i > 0; i--)" with every value of
\* j = Math.floor(Math.random() * (i + 1)) in 0..i : the set of arrays the
\* shuffle can leave behind
RECURSIVE ShuffleFrom(_, _)
ShuffleFrom(array, i) ==
    IF i <= 0 THEN {array}
    ELSE UNION { ShuffleFrom(Swap(array, i + 1, j + 1), i - 1) : j \in 0 .. i }

shuffleArray(array) == ShuffleFrom(array, Len(array) - 1)

\* ------------------------------------------------------------ loadCard
\* The part of the state loadCard reads and writes, as a record.
View ==
    [isBackVisible |-> isBackVisible, hidden |-> hidden, disabled |-> disabled,
     rendered |-> rendered, sessionStatus |-> sessionStatus,
     presented |-> presented, threw |-> FALSE]

\* end of session branch (lines 223-230)
SessionEnd(s) ==
    [s EXCEPT !.hidden = [@ EXCEPT !["studyAreaEl"] = TRUE,
                                   !["controls"] = TRUE,
                                   !["sessionCompleteEl"] = FALSE]]

\* a reset that also puts the error message away
ResetCardUIHidesError(s, cardIndex) ==
    [s EXCEPT !.hidden = [@ EXCEPT !["backCardEl"] = TRUE,
                                   !["frontCardEl"] = FALSE,
                                   !["ratingButtonsEl"] = TRUE,
                                   !["actionBtn"] = FALSE,
                                   !["errorMessageEl"] = TRUE],
              !.disabled = [@ EXCEPT !["ratingButtons"] = FALSE,
                                     !["actionBtn"] = FALSE],
              !.sessionStatus = cardIndex + 1]

\* "Reset UI for the new card" (lines 239-250)
ResetCardUI(s, cardIndex) ==
    [s EXCEPT !.hidden = [@ EXCEPT !["backCardEl"] = TRUE,
                                   !["frontCardEl"] = FALSE,
                                   !["ratingButtonsEl"] = TRUE,
                                   !["actionBtn"] = FALSE],
              !.disabled = [@ EXCEPT !["ratingButtons"] = FALSE,
                                     !["actionBtn"] = FALSE],
              !.sessionStatus = cardIndex + 1]

\* renderContent(card.front_content, ..); renderContent(card.back_content, ..)
\* (lines 236-237): a side that is not a string leaves its element cleared
\* and throws, so nothing after it runs
RenderSides(s, card) ==
    IF card.bad = "front"
    THEN [s EXCEPT !.rendered = [@ EXCEPT !["frontContentEl"] = 0],
                   !.threw = TRUE]
    ELSE IF card.bad = "back"
    THEN [s EXCEPT !.rendered = [@ EXCEPT !["frontContentEl"] = card.id,
                                          !["backContentEl"] = 0],
                   !.threw = TRUE]
    ELSE [s EXCEPT !.rendered = [@ EXCEPT !["frontContentEl"] = card.id,
                                          !["backContentEl"] = card.id]]

\* isBackVisible = false; const card = cards[cardIndex]  (lines 232-233)
SelectCard(s, card) ==
    [s EXCEPT !.isBackVisible = FALSE, !.presented = Append(@, card.id)]

loadCard(cardIndex, cs, s) ==
    IF cardIndex >= Len(cs) THEN SessionEnd(s)
    ELSE LET card == cs[cardIndex + 1]
             r == RenderSides(SelectCard(s, card), card)
         IN  IF r.threw THEN r ELSE ResetCardUI(r, cardIndex)

\* ---------------------------------------------------------------- Init
StudyInit ==
    /\ pc = "start"
    /\ deckId \in BOOLEAN
    /\ cards = << >>
    /\ currentCardIndex = 0
    /\ isBackVisible = FALSE
    /\ handlers = FALSE
    /\ hidden = InitialHidden
    /\ disabled = InitialDisabled
    /\ rendered = InitialRendered
    /\ text = InitialText
    /\ sessionStatus = 0
    /\ requests = << >>
    /\ pending = << >>
    /\ fetched = << >>
    /\ presented = << >>
    /\ submitted = << >>
    /\ issued = 0
    /\ revealCount = 0
    /\ revealedAtSuccess = << >>
    /\ lastOp = "none"

\* the renderer variables while the session controller is studied
RenderIdle ==
    /\ rpc = "idle"
    /\ content = << >>
    /\ lastIndex = 0
    /\ fragment = << >>
    /\ matches = << >>
    /\ tableContent = << >>
    /\ parsedTable = [ok |-> FALSE, headers |-> << >>, rows |-> << >>]

\* the import page variables while another page is studied; the button is
\* enabled and its spinner hidden in the page markup
ImportIdle ==
    /\ ipc = "idle"
    /\ deckContentValue = << >>
    /\ importBtnDisabled = FALSE
    /\ spinnerHidden = TRUE
    /\ uploads = 0
    /\ alertShown = "none"
    /\ redirectScheduled = FALSE
    /\ importOp = "none"

Init == StudyInit /\ RenderIdle /\ ImportIdle

\* ------------------------------------------------ initializeStudySession
sessionVars == << cards, currentCardIndex, isBackVisible, handlers, rendered,
                  sessionStatus, pending, fetched, presented, submitted,
                  issued, revealCount, revealedAtSuccess >>

\* the missing-deck branch without its return: the error is shown and the
\* deck request goes out all the same
InitMissingDeckFallsThrough ==
    /\ pc = "start"
    /\ ~deckId
    /\ text' = [text EXCEPT !["errorMessageEl"] = "No deck selected",
                            !["deckTitleEl"] = "Error"]
    /\ hidden' = [hidden EXCEPT !["errorMessageEl"] = FALSE,
                                !["studyAreaEl"] = TRUE,
                                !["controls"] = TRUE]
    /\ requests' = Append(requests, "decks")
    /\ pc' = "await_decks"
    /\ lastOp' = "init_missing"
    /\ UNCHANGED << deckId, disabled >>
    /\ UNCHANGED sessionVars
    /\ UNCHANGED << renderVars, importVars >>

\* if (!deckId) { ... return; }   (lines 329-337)
InitMissingDeck ==
    /\ pc = "start"
    /\ ~deckId
    /\ text' = [text EXCEPT !["errorMessageEl"] = "No deck selected",
                            !["deckTitleEl"] = "Error"]
    /\ hidden' = [hidden EXCEPT !["errorMessageEl"] = FALSE,
                                !["studyAreaEl"] = TRUE,
                                !["controls"] = TRUE]
    /\ pc' = "returned"
    /\ lastOp' = "init_missing"
    /\ UNCHANGED << deckId, disabled, requests >>
    /\ UNCHANGED sessionVars
    /\ UNCHANGED << renderVars, importVars >>

\* fetch(`${API_BASE_URL}/api/decks`)   (line 342)
InitFetchDecks ==
    /\ pc = "start"
    /\ deckId
    /\ requests' = Append(requests, "decks")
    /\ pc' = "await_decks"
    /\ lastOp' = "init_fetch_decks"
    /\ UNCHANGED << deckId, hidden, disabled, text >>
    /\ UNCHANGED sessionVars
    /\ UNCHANGED << renderVars, importVars >>

\* a catch block that shows the message but leaves the page interactive
InitCatchLeavesControls(h, t) ==
    /\ text' = [t EXCEPT !["errorMessageEl"] = "Could not load the deck",
                         !["deckTitleEl"] = "Error Loading Deck"]
    /\ hidden' = [h EXCEPT !["errorMessageEl"] = FALSE]
    /\ pc' = "returned"

\* the catch block of initializeStudySession (lines 385-392)
InitCatch(h, t) ==
    /\ text' = [t EXCEPT !["errorMessageEl"] = "Could not load the deck",
                         !["deckTitleEl"] = "Error Loading Deck"]
    /\ hidden' = [h EXCEPT !["errorMessageEl"] = FALSE,
                           !["studyAreaEl"] = TRUE,
                           !["controls"] = TRUE]
    /\ pc' = "returned"

\* the deck request rejects or answers with a non-success status (line 343)
DecksFail ==
    /\ pc = "await_decks"
    /\ InitCatch(hidden, text)
    /\ lastOp' = "decks_fail"
    /\ UNCHANGED << deckId, disabled, requests >>
    /\ UNCHANGED sessionVars
    /\ UNCHANGED << renderVars, importVars >>

\* currentDeck.name read without the test for a match: no match throws and
\* the catch block runs
DecksOkNeedsMatch ==
    /\ pc = "await_decks"
    /\ \E found \in BOOLEAN :
          IF found
          THEN /\ text' = [text EXCEPT !["deckTitleEl"] = "deck name"]
               /\ requests' = Append(requests, "cards")
               /\ pc' = "await_cards"
               /\ hidden' = hidden
          ELSE /\ InitCatch(hidden, text)
               /\ requests' = requests
    /\ lastOp' = "decks_ok"
    /\ UNCHANGED << deckId, disabled >>
    /\ UNCHANGED sessionVars
    /\ UNCHANGED << renderVars, importVars >>

\* the deck list arrives; the deck is found in it or not (lines 344-353)
DecksOk ==
    /\ pc = "await_decks"
    /\ \E found \in BOOLEAN :
          text' = [text EXCEPT !["deckTitleEl"] =
                       IF found THEN "deck name" ELSE "Study Session"]
    /\ requests' = Append(requests, "cards")
    /\ pc' = "await_cards"
    /\ lastOp' = "decks_ok"
    /\ UNCHANGED << deckId, hidden, disabled >>
    /\ UNCHANGED sessionVars
    /\ UNCHANGED << renderVars, importVars >>

\* the due-card request rejects or answers with a non-success status (line 354)
CardsFail ==
    /\ pc = "await_cards"
    /\ InitCatch(hidden, text)
    /\ lastOp' = "cards_fail"
    /\ UNCHANGED << deckId, disabled, requests >>
    /\ UNCHANGED sessionVars
    /\ UNCHANGED << renderVars, importVars >>

\* an empty list that falls through to the listener registration
CardsEmptyFallsThrough ==
    /\ pc = "await_cards"
    /\ cards' = << >>
    /\ fetched' = << >>
    /\ currentCardIndex' = 0
    /\ hidden' = SessionEnd(View).hidden
    /\ handlers' = TRUE
    /\ pc' = "returned"
    /\ lastOp' = "cards_empty"
    /\ UNCHANGED << deckId, disabled, requests, isBackVisible, text,
                    rendered, sessionStatus, pending, presented,
                    submitted, issued, revealCount, revealedAtSuccess >>
    /\ UNCHANGED << renderVars, importVars >>

\* cards.length === 0   (lines 356-368)
CardsEmpty ==
    /\ pc = "await_cards"
    /\ cards' = << >>
    /\ fetched' = << >>
    /\ text' = [text EXCEPT !["sessionCompleteEl"] = "All Caught Up"]
    /\ hidden' = [hidden EXCEPT !["sessionCompleteEl"] = FALSE,
                                !["studyAreaEl"] = TRUE,
                                !["controls"] = TRUE]
    /\ pc' = "returned"
    /\ lastOp' = "cards_empty"
    /\ UNCHANGED << deckId, disabled, requests, currentCardIndex, isBackVisible,
                    handlers, rendered, sessionStatus, pending, presented,
                    submitted, issued, revealCount, revealedAtSuccess >>
    /\ UNCHANGED << renderVars, importVars >>

\* a non-empty list: shuffle, loadCard(0), then either the listeners are
\* added (lines 370-383) or loadCard threw and the catch block runs
CardsReady ==
    /\ pc = "await_cards"
    /\ \E list \in FetchedLists : \E shuffled \in shuffleArray(list) :
          /\ Len(list) > 0
          /\ fetched' = list
          /\ cards' = shuffled
          /\ currentCardIndex' = 0
          /\ LET r == loadCard(0, shuffled, View)
             IN  /\ isBackVisible' = r.isBackVisible
                 /\ disabled' = r.disabled
                 /\ rendered' = r.rendered
                 /\ sessionStatus' = r.sessionStatus
                 /\ presented' = r.presented
                 /\ IF r.threw
                    THEN /\ InitCatch(r.hidden, text)
                         /\ handlers' = FALSE
                         /\ lastOp' = "cards_load_threw"
                    ELSE /\ hidden' = r.hidden
                         /\ text' = text
                         /\ handlers' = TRUE
                         /\ pc' = "returned"
                         /\ lastOp' = "cards_ready"
    /\ UNCHANGED << deckId, requests, pending, submitted, issued, revealCount,
                    revealedAtSuccess >>
    /\ UNCHANGED << renderVars, importVars >>

\* ---------------------------------------------------- handleActionClick
\* a click on actionBtn reaches the listener (lines 255-271)
handleActionClick ==
    /\ handlers
    /\ ~disabled["actionBtn"]
    /\ IF isBackVisible
       THEN /\ lastOp' = "reveal_noop"
            /\ UNCHANGED << isBackVisible, hidden, revealCount >>
       ELSE /\ hidden' = [hidden EXCEPT !["backCardEl"] = FALSE,
                                        !["actionBtn"] = TRUE,
                                        !["ratingButtonsEl"] = FALSE]
            /\ isBackVisible' = TRUE
            /\ revealCount' = revealCount + 1
            /\ lastOp' = "reveal"
    /\ UNCHANGED << pc, deckId, cards, currentCardIndex, handlers, disabled,
                    rendered, text, sessionStatus, requests, pending, fetched,
                    presented, submitted, issued, revealedAtSuccess >>
    /\ UNCHANGED << renderVars, importVars >>

\* ---------------------------------------------------- handleRatingClick
\* the buttons stay enabled during the request
DisableRatingsForgotten(d) == d

\* ratingButtonsEl.querySelectorAll('button').forEach(b => b.disabled = true)
\* (line 283)
DisableRatings(d) == [d EXCEPT !["ratingButtons"] = TRUE]

\* the index is not advanced, or advanced twice
NextIndexStays(i) == i
NextIndexSkips(i) == i + 2

\* currentCardIndex++   (line 310)
NextIndex(i) == i + 1

\* a click on a rating button reaches the listener, which runs up to the
\* await of fetch (lines 274-298)
RatingClick ==
    /\ handlers
    /\ ~disabled["ratingButtons"]
    /\ Len(pending) < MaxPending
    /\ \E rating \in Ratings :
          IF currentCardIndex >= Len(cards)
          THEN \* card is undefined: card.id throws at line 276
               /\ lastOp' = "rate_no_card"
               /\ UNCHANGED << disabled, pending, issued >>
          ELSE LET card == cards[currentCardIndex + 1]
               IN  /\ disabled' = DisableRatings(disabled)
                   /\ pending' = Append(pending, [card_id |-> card.id, rating |-> rating])
                   /\ issued' = card.id
                   /\ lastOp' = "rate"
    /\ UNCHANGED << pc, deckId, cards, currentCardIndex, isBackVisible, handlers,
                    hidden, rendered, text, sessionStatus, requests, fetched,
                    presented, submitted, revealCount, revealedAtSuccess >>
    /\ UNCHANGED << renderVars, importVars >>

\* a click on a disabled rating button: no click event is dispatched
RatingClickDisabled ==
    /\ handlers
    /\ disabled["ratingButtons"]
    /\ lastOp' = "rate_dropped"
    /\ UNCHANGED << pc, deckId, cards, currentCardIndex, isBackVisible, handlers,
                    hidden, disabled, rendered, text, sessionStatus, requests,
                    pending, fetched, presented, submitted, issued, revealCount,
                    revealedAtSuccess >>
    /\ UNCHANGED << renderVars, importVars >>

\* the answered request stays in flight and can be answered again
RemoveKeeps(seq, k) == seq

\* the request whose fetch settles leaves the list of requests in flight
Remove(seq, k) == [i \in 1 .. Len(seq) - 1 |-> IF i < k THEN seq[i] ELSE seq[i + 1]]

\* a catch block that leaves the buttons disabled
RatingCatchKeepsDisabled(h, d) ==
    /\ text' = [text EXCEPT !["errorMessageEl"] = "Error submitting review"]
    /\ hidden' = [h EXCEPT !["errorMessageEl"] = FALSE]
    /\ disabled' = d

\* the catch block of handleRatingClick (lines 313-320)
RatingCatch(h, d) ==
    /\ text' = [text EXCEPT !["errorMessageEl"] = "Error submitting review"]
    /\ hidden' = [h EXCEPT !["errorMessageEl"] = FALSE]
    /\ disabled' = [d EXCEPT !["ratingButtons"] = FALSE]

\* the review request is answered with success: advance and load the next
\* card (lines 299-311); a throw of loadCard lands in the catch block
ReviewSuccess ==
    /\ \E k \in 1 .. Len(pending) :
          /\ pending' = Remove(pending, k)
          /\ submitted' = Append(submitted, pending[k].card_id)
    /\ revealedAtSuccess' = Append(revealedAtSuccess, revealCount)
    /\ revealCount' = 0
    /\ currentCardIndex' = NextIndex(currentCardIndex)
    /\ LET r == loadCard(NextIndex(currentCardIndex), cards, View)
       IN  /\ isBackVisible' = r.isBackVisible
           /\ rendered' = r.rendered
           /\ sessionStatus' = r.sessionStatus
           /\ presented' = r.presented
           /\ IF r.threw
              THEN /\ RatingCatch(r.hidden, r.disabled)
                   /\ lastOp' = "review_ok_load_threw"
              ELSE /\ hidden' = r.hidden
                   /\ disabled' = r.disabled
                   /\ text' = text
                   /\ lastOp' = "review_ok"
    /\ UNCHANGED << pc, deckId, cards, handlers, requests, fetched, issued >>
    /\ UNCHANGED << renderVars, importVars >>

\* the review request rejects, or answers with a non-success status
\* (lines 301-305), and the catch block runs
ReviewFail ==
    /\ \E k \in 1 .. Len(pending) : pending' = Remove(pending, k)
    /\ RatingCatch(hidden, disabled)
    /\ lastOp' = "review_fail"
    /\ UNCHANGED << pc, deckId, cards, currentCardIndex, isBackVisible, handlers,
                    rendered, sessionStatus, requests, fetched, presented,
                    submitted, issued, revealCount, revealedAtSuccess >>
    /\ UNCHANGED << renderVars, importVars >>

\* ------------------------------------------------------- specification
Next ==
    \/ InitMissingDeck
    \/ InitFetchDecks
    \/ DecksFail
    \/ DecksOk
    \/ CardsFail
    \/ CardsEmpty
    \/ CardsReady
    \/ handleActionClick
    \/ RatingClick
    \/ RatingClickDisabled
    \/ ReviewSuccess
    \/ ReviewFail

Spec == Init /\ [][Next]_vars

TypeOK ==
    /\ pc \in {"start", "await_decks", "await_cards", "returned"}
    /\ currentCardIndex \in 0 .. MaxCards
    /\ revealCount \in 0 .. 2
    /\ isBackVisible \in BOOLEAN
    /\ Len(pending) <= MaxPending

\* --------------------------------------------------- session predicates
Ids(cs) == [i \in 1 .. Len(cs) |-> cs[i].id]

\* the session ended through loadCard's end-of-session branch
Complete ==
    /\ handlers
    /\ currentCardIndex >= Len(cards)
    /\ ~hidden["sessionCompleteEl"]
    /\ hidden["studyAreaEl"]
    /\ hidden["controls"]

\* a contains every element of b exactly once, and nothing else
IsPermutation(a, b) ==
    /\ Len(a) = Len(b)
    /\ \A i \in 1 .. Len(b) : Cardinality({k \in 1 .. Len(a) : a[k] = b[i]}) = 1

RatingStep == RatingClick \/ RatingClickDisabled

\* ----------------------------------------------------------------- C1
\* C1: once the listeners are registered for N >= 1 cards, the session is
\* Complete exactly when N reviews have succeeded; the cards loadCard
\* selected for indices 0..N-1 are then the shuffled list in order, and the
\* shuffled list holds every fetched card exactly once.
C1_RunReachesCompleteOverPermutation ==
    handlers =>
        /\ IsPermutation(cards, fetched)
        /\ (Len(submitted) = Len(cards)) <=> Complete
        /\ Complete => /\ presented = Ids(cards)
                       /\ submitted = Ids(cards)
                       /\ currentCardIndex = Len(cards)

\* a full-size session that was really reordered, finished by reveal then
\* rate on every card with no failed submission
C1_Witness ==
    /\ Complete
    /\ Len(cards) = MaxCards
    /\ cards # fetched
    /\ \A i \in 1 .. Len(revealedAtSuccess) : revealedAtSuccess[i] = 1
    /\ hidden["errorMessageEl"]

\* ----------------------------------------------------------------- C2
\* C2: a rating click that arrives while the reveal flag is false issues no
\* submission and leaves index, reveal flag and the enabled state of the
\* rating buttons as they were.
C2_RateBeforeRevealIsNoOp ==
    [][ (RatingStep /\ ~isBackVisible) =>
            UNCHANGED << pending, issued, currentCardIndex, isBackVisible, disabled >> ]_vars

\* ----------------------------------------------------------------- C3
\* C3: processing a failed submission leaves the index and the reveal flag
\* as they were (a revealed card stays revealed), leaves the rating buttons
\* enabled, and issues no submission of its own; a new submission only ever
\* starts in a rating click.
C3_FailureKeepsCardAndAllowsRetry ==
    [][ /\ ReviewFail =>
            /\ currentCardIndex' = currentCardIndex
            /\ isBackVisible' = isBackVisible
            /\ ~disabled'["ratingButtons"]
            /\ Len(pending') = Len(pending) - 1
            /\ issued' = issued
            /\ presented' = presented
        /\ (Len(pending') > Len(pending)) => lastOp' = "rate" ]_vars

\* a failure was processed on a revealed card; the card is still revealed,
\* the buttons are enabled and nothing is in flight
C3_Witness ==
    /\ lastOp = "review_fail"
    /\ isBackVisible
    /\ ~hidden["ratingButtonsEl"]
    /\ ~disabled["ratingButtons"]
    /\ pending = << >>
    /\ currentCardIndex = 1

\* ----------------------------------------------------------------- C4
\* C4: at most one submission is in flight, and while one is in flight the
\* rating buttons are disabled.
C4_AtMostOneInFlight ==
    /\ Len(pending) <= 1
    /\ Len(pending) = 1 => disabled["ratingButtons"]

\* a rating click arrived while a submission was pending and was dropped
C4_Witness ==
    /\ Len(pending) = 1
    /\ lastOp = "rate_dropped"

\* ----------------------------------------------------------------- C5
\* C5: the successful submissions are exactly the cards before the current
\* index, in card order, each once; a pending submission is for the card at
\* the current index; and a card is selected for presentation only after
\* all cards before it have a successful submission.
C5_SubmissionsFollowCardOrder ==
    handlers =>
        /\ currentCardIndex <= Len(cards)
        /\ submitted = Ids(SubSeq(cards, 1, currentCardIndex))
        /\ \A i, j \in 1 .. Len(submitted) : submitted[i] = submitted[j] => i = j
        /\ \A k \in 1 .. Len(pending) :
              /\ currentCardIndex < Len(cards)
              /\ pending[k].card_id = cards[currentCardIndex + 1].id
        /\ Len(presented) <= Len(submitted) + 1
        /\ presented = Ids(SubSeq(cards, 1, Len(presented)))

\* two cards reviewed, a failure in between, third card pending
C5_Witness ==
    /\ Len(submitted) = 2
    /\ Len(pending) = 1
    /\ ~hidden["errorMessageEl"]
    /\ cards # fetched

\* ----------------------------------------------------------------- C6
\* C6: every successful review was preceded by exactly one effective reveal
\* of its index, and at Complete the number of successful reviews is N.
C6_EachSuccessAfterExactlyOneReveal ==
    /\ \A i \in 1 .. Len(revealedAtSuccess) : revealedAtSuccess[i] = 1
    /\ Complete => Len(submitted) = Len(cards)

\* ----------------------------------------------------------------- C7
\* C7: the rating buttons carry d-none whenever the reveal flag is false,
\* and a step in which loadCard selects a card leaves the rating buttons
\* hidden and the reveal button shown.
C7_RatingShownOnlyAfterReveal ==
    /\ [](~hidden["ratingButtonsEl"] => isBackVisible)
    /\ [][ presented' # presented =>
              /\ hidden'["ratingButtonsEl"]
              /\ ~hidden'["actionBtn"] ]_vars

\* ----------------------------------------------------------------- C8
\* C8: a reveal click that arrives while the card is already revealed, or
\* after Complete, changes neither the reveal flag nor the index nor any
\* d-none class; no index is revealed twice.
C8_RevealOnlyFromFront ==
    /\ [][ (handleActionClick /\ (isBackVisible \/ Complete)) =>
              UNCHANGED << isBackVisible, currentCardIndex, hidden, revealCount >> ]_vars
    /\ [](revealCount <= 1)

\* ----------------------------------------------------------------- C9
\* C9: once the listeners are registered the index changes only in the
\* step that processes a successful review, and there by exactly +1; if the
\* new index is the number of cards the session is Complete, otherwise
\* loadCard has selected the card at the new index, the reveal flag is
\* false and the rating buttons are enabled.
C9_SuccessAdvancesByOne ==
    [][ /\ (Len(submitted') > Len(submitted)) =>
              /\ currentCardIndex' = currentCardIndex + 1
              /\ Len(submitted') = Len(submitted) + 1
              /\ IF currentCardIndex' = Len(cards)
                 THEN Complete'
                 ELSE /\ currentCardIndex' < Len(cards)
                      /\ presented' = Append(presented, cards[currentCardIndex' + 1].id)
                      /\ ~isBackVisible'
                      /\ ~disabled'["ratingButtons"]
                      /\ ~Complete'
        /\ (currentCardIndex' # currentCardIndex) => (Len(submitted') > Len(submitted)) ]_vars

\* the second of three cards was reviewed without any failure and the third
\* is on its front
C9_Witness ==
    /\ lastOp = "review_ok"
    /\ Len(cards) = 3
    /\ currentCardIndex = 2
    /\ presented = Ids(cards)
    /\ rendered["frontContentEl"] = cards[3].id
    /\ ~isBackVisible
    /\ hidden["errorMessageEl"]

\* ---------------------------------------------------------------- C10
\* the "All Caught Up" screen
Empty ==
    /\ pc = "returned"
    /\ cards = << >>
    /\ text["sessionCompleteEl"] = "All Caught Up"
    /\ ~hidden["sessionCompleteEl"]
    /\ hidden["studyAreaEl"]
    /\ hidden["controls"]

\* C10: an empty due-card list takes the session from the wait for the card
\* request straight to Empty; there no card was ever selected, no listener
\* is registered, nothing was revealed or submitted, and no further step is
\* possible.
C10_EmptyListGoesStraightToEmpty ==
    /\ [](lastOp = "cards_empty" =>
             /\ Empty
             /\ ~handlers
             /\ presented = << >>
             /\ ~isBackVisible
             /\ revealCount = 0
             /\ pending = << >>
             /\ issued = 0
             /\ submitted = << >>
             /\ hidden["errorMessageEl"])
    /\ [][lastOp' = "cards_empty" => pc = "await_cards"]_vars
    /\ [][lastOp # "cards_empty"]_vars

C10_Witness ==
    /\ lastOp = "cards_empty"
    /\ Empty
    /\ requests = << "decks", "cards" >>

\* ---------------------------------------------------------------- C11
\* the blocking error screen of a failed initialisation
Failed ==
    /\ pc = "returned"
    /\ text["errorMessageEl"] = "Could not load the deck"
    /\ text["deckTitleEl"] = "Error Loading Deck"
    /\ ~hidden["errorMessageEl"]
    /\ hidden["studyAreaEl"]
    /\ hidden["controls"]

\* C11: after a failed deck request or a failed due-card request the session
\* is Failed: study area and controls hidden, no listener registered, no
\* card selected, nothing revealed or submitted, and no further step; after
\* a failed deck request the due-card request was never issued.
C11_InitFailureIsTerminalFailed ==
    /\ [](lastOp \in {"decks_fail", "cards_fail"} =>
             /\ Failed
             /\ ~handlers
             /\ cards = << >>
             /\ presented = << >>
             /\ ~isBackVisible
             /\ pending = << >>
             /\ issued = 0)
    /\ [](lastOp = "decks_fail" => requests = << "decks" >>)
    /\ [](lastOp = "cards_fail" => requests = << "decks", "cards" >>)
    /\ [][lastOp \notin {"decks_fail", "cards_fail"}]_vars

\* the due-card request failed after the deck request had succeeded
C11_Witness ==
    /\ lastOp = "cards_fail"
    /\ Failed
    /\ requests = << "decks", "cards" >>

\* ---------------------------------------------------------------- C12
\* C12: without a deck id no request is ever issued, no card is selected and
\* no listener is registered; once initializeStudySession has run the
\* "No deck selected" error is shown with study area and controls hidden,
\* and nothing further happens.
C12_MissingDeckIdBlocksWithoutRequest ==
    /\ [](~deckId =>
             /\ requests = << >>
             /\ ~handlers
             /\ cards = << >>
             /\ presented = << >>
             /\ pending = << >>
             /\ issued = 0)
    /\ []((~deckId /\ pc # "start") =>
             /\ pc = "returned"
             /\ text["errorMessageEl"] = "No deck selected"
             /\ ~hidden["errorMessageEl"]
             /\ hidden["studyAreaEl"]
             /\ hidden["controls"])
    /\ [][~deckId => pc = "start"]_vars

C12_Witness ==
    /\ ~deckId
    /\ lastOp = "init_missing"
    /\ pc = "returned"
    /\ text["deckTitleEl"] = "Error"

\* ---------------------------------------------------------------- C13
\* C13: the step that processes a successful deck response always issues the
\* due-card request and shows no error, whether or not the deck was found;
\* the title is then the deck's name or the generic "Study Session", and
\* the only step from the wait for the deck response to the error screen is
\* the one of a failed request.
C13_NoMatchDegradesToGenericLabel ==
    [][ /\ lastOp' = "decks_ok" =>
              /\ pc' = "await_cards"
              /\ requests' = << "decks", "cards" >>
              /\ text'["deckTitleEl"] \in {"deck name", "Study Session"}
              /\ text'["errorMessageEl"] = ""
              /\ hidden' = hidden
        /\ (pc = "await_decks" /\ pc' = "returned") => lastOp' = "decks_fail" ]_vars

\* a full session ran to the end under the generic label
C13_Witness ==
    /\ text["deckTitleEl"] = "Study Session"
    /\ Complete
    /\ Len(cards) = MaxCards
    /\ hidden["errorMessageEl"]

\* ====================================================================
\* Content rendering: parseTableData and renderContent.
\* A string is a sequence of one-character strings; "" is << >>.
\* ====================================================================
MaxTableLen == 7

\* the characters String.prototype.trim removes, as far as the inputs go
WhiteSpace == {" ", "\n", "\t"}

RECURSIVE trimStart(_)
trimStart(s) ==
    IF s # << >> /\ Head(s) \in WhiteSpace THEN trimStart(Tail(s)) ELSE s

RECURSIVE trimEnd(_)
trimEnd(s) ==
    IF s # << >> /\ s[Len(s)] \in WhiteSpace
    THEN trimEnd(SubSeq(s, 1, Len(s) - 1))
    ELSE s

trim(s) == trimEnd(trimStart(s))

\* s.split(sep) for a one-character separator: always at least one piece
RECURSIVE split(_, _)
split(s, sep) ==
    IF \E i \in 1 .. Len(s) : s[i] = sep
    THEN LET i == CHOOSE k \in 1 .. Len(s) :
                      s[k] = sep /\ \A j \in 1 .. k - 1 : s[j] # sep
         IN  << SubSeq(s, 1, i - 1) >> \o split(SubSeq(s, i + 1, Len(s)), sep)
    ELSE << s >>

\* s.substring(from, to) with 0-based from (inclusive) and to (exclusive)
substring(s, from, to) == SubSeq(s, from + 1, to)

\* ------------------------------------------------------ parseTableData
IsNonBlank(line) == trim(line) # << >>

\* the split without the filter for blank lines
TableLinesKeepBlank(tc) == split(trim(tc), "\n")

\* tableContent.trim().split('\n').filter(line => line.trim())   (line 32)
TableLines(tc) == SelectSeq(split(trim(tc), "\n"), IsNonBlank)

\* line.split('|').map(c => c.trim())   (lines 39, 45)
Cells(line) ==
    LET parts == split(line, "|")
    IN  [k \in 1 .. Len(parts) |-> trim(parts[k])]

\* a row that is stored as it was split
PadRowNever(rowData, n) == rowData

\* while (rowData.length < headers.length) rowData.push('')   (lines 50-52)
RECURSIVE PadRow(_, _)
PadRow(rowData, n) ==
    IF Len(rowData) < n THEN PadRow(Append(rowData, << >>), n) ELSE rowData

\* for (let i = 2; ...)   (line 44), 0-based
FirstRowIndex == 2

\* for (let i = ..; i < lines.length; i++) { ...; rows.push(rowData) }
\* (lines 44-54), i 0-based
RECURSIVE RowsFrom(_, _, _, _)
RowsFrom(lines, i, headers, rows) ==
    IF i < Len(lines)
    THEN RowsFrom(lines, i + 1, headers,
                  Append(rows, PadRow(Cells(lines[i + 1]), Len(headers))))
    ELSE rows

NoTable == [ok |-> FALSE, headers |-> << >>, rows |-> << >>]

\* if (lines.length < 2) return null   (line 34)
MinTableLines == 2

\* a parser that accepts a header line alone
parseTableDataHeaderOnly(tc) ==
    LET lines == TableLines(tc)
    IN  IF Len(lines) < 1
        THEN NoTable
        ELSE LET headers == Cells(lines[1])
             IN  [ok |-> TRUE, headers |-> headers,
                  rows |-> RowsFrom(lines, FirstRowIndex, headers, << >>)]

parseTableData(tc) ==
    LET lines == TableLines(tc)
    IN  IF Len(lines) < MinTableLines
        THEN NoTable
        ELSE LET headers == Cells(lines[1])
             IN  [ok |-> TRUE, headers |-> headers,
                  rows |-> RowsFrom(lines, FirstRowIndex, headers, << >>)]

\* ------------------------------------------------------------ inputs
RECURSIVE StringsUpTo(_, _)
StringsUpTo(alphabet, n) ==
    IF n = 0 THEN {<< >>}
    ELSE LET shorter == StringsUpTo(alphabet, n - 1)
         IN  shorter \cup { Append(t, c) : t \in shorter, c \in alphabet }

TableBodies == StringsUpTo({"a", "|", " ", "\n"}, MaxTableLen)

\* -------------------------------------------------------------- actions
\* one call of parseTableData
ParseTable ==
    /\ rpc = "table"
    /\ parsedTable' = parseTableData(tableContent)
    /\ rpc' = "table_done"
    /\ UNCHANGED << content, lastIndex, fragment, matches, tableContent >>
    /\ UNCHANGED << studyVars, importVars >>

StudyIdle == StudyInit /\ deckId

TableInit ==
    /\ StudyIdle
    /\ ImportIdle
    /\ rpc = "table"
    /\ tableContent \in TableBodies
    /\ content = << >>
    /\ lastIndex = 0
    /\ fragment = << >>
    /\ matches = << >>
    /\ parsedTable = NoTable

TableNext == ParseTable

TableSpec == TableInit /\ [][TableNext]_vars

\* --------------------------------------------------- table predicates
\* the non-blank lines of the body, taken from the raw text
NonBlankLines(tc) == SelectSeq(split(tc, "\n"), IsNonBlank)

\* number of cells a line splits into: one more than its "|" characters
CellCount(line) == Cardinality({k \in 1 .. Len(line) : line[k] = "|"}) + 1

Max(a, b) == IF a >= b THEN a ELSE b

TableReturned == rpc = "table_done" /\ parsedTable.ok

\* ---------------------------------------------------------------- C14
\* C14 (as stated): every row of a parsed table has exactly as many cells
\* as the header.
C14_RowLengthEqualsHeaderLength ==
    TableReturned =>
        \A r \in 1 .. Len(parsedTable.rows) :
            Len(parsedTable.rows[r]) = Len(parsedTable.headers)

\* C14 (amended): every row of a parsed table has at least as many cells as
\* the header: exactly the header's number when its line has no more cells
\* than the header line, and the number of cells of its line otherwise.
C14_RowLengthAtLeastHeaderLength ==
    TableReturned =>
        LET lines == NonBlankLines(tableContent)
        IN  /\ Len(parsedTable.headers) = CellCount(lines[1])
            /\ \A r \in 1 .. Len(parsedTable.rows) :
                  /\ Len(parsedTable.rows[r]) >= Len(parsedTable.headers)
                  /\ Len(parsedTable.rows[r]) =
                        Max(CellCount(lines[r + 2]), Len(parsedTable.headers))

\* a table with one row shorter than a two-cell header (padded) 
C14_Witness ==
    /\ TableReturned
    /\ Len(parsedTable.headers) = 2
    /\ Len(parsedTable.rows) = 1
    /\ CellCount(NonBlankLines(tableContent)[3]) = 1
    /\ Len(parsedTable.rows[1]) = 2

\* ---------------------------------------------------------------- C15
\* C15: a body with at least 2 non-blank lines parses; its rows are the
\* non-blank lines from the third onward, in order (the second line is not
\* looked at); a row's cells are the trimmed "|"-separated pieces of its
\* line, followed by empty strings up to the header length when the line has
\* fewer cells than the header, and nothing is removed from a longer line.
C15_RowsAreLinesFromThirdPaddedNotCut ==
    rpc = "table_done" =>
        LET lines == NonBlankLines(tableContent)
        IN  /\ parsedTable.ok <=> Len(lines) >= 2
            /\ parsedTable.ok =>
                 /\ parsedTable.headers = Cells(lines[1])
                 /\ Len(parsedTable.rows) = Len(lines) - 2
                 /\ \A r \in 1 .. Len(parsedTable.rows) :
                       LET cells == Cells(lines[r + 2])
                           row == parsedTable.rows[r]
                       IN  /\ Len(row) >= Len(cells)
                           /\ SubSeq(row, 1, Len(cells)) = cells
                           /\ \A k \in Len(cells) + 1 .. Len(row) :
                                 /\ row[k] = << >>
                                 /\ k <= Len(parsedTable.headers)
                           /\ Len(cells) < Len(parsedTable.headers) =>
                                 Len(row) = Len(parsedTable.headers)

\* a row with more cells than the header, kept whole
C15_Witness ==
    /\ TableReturned
    /\ Len(parsedTable.headers) = 1
    /\ Len(parsedTable.rows) = 1
    /\ parsedTable.rows[1] = << <<"a">>, <<"a">> >>

\* ====================================================================
\* renderContent
\* ====================================================================
MaxPieces == 5
MaxSqlPieces == 3

UpperSeq == << "A", "B", "C", "D", "E", "F", "G", "H", "I", "J", "K", "L", "M",
               "N", "O", "P", "Q", "R", "S", "T", "U", "V", "W", "X", "Y", "Z" >>
LowerSeq == << "a", "b", "c", "d", "e", "f", "g", "h", "i", "j", "k", "l", "m",
               "n", "o", "p", "q", "r", "s", "t", "u", "v", "w", "x", "y", "z" >>
Upper == { UpperSeq[i] : i \in 1 .. 26 }
Lower == { LowerSeq[i] : i \in 1 .. 26 }
Digits == {"0", "1", "2", "3", "4", "5", "6", "7", "8", "9"}

\* [a-zA-Z0-9_\-]
ParamChars == Lower \cup Upper \cup Digits \cup {"_", "-"}

LowerOf(c) ==
    IF c \in Upper THEN LowerSeq[CHOOSE i \in 1 .. 26 : UpperSeq[i] = c] ELSE c

toLowerCase(s) == [k \in 1 .. Len(s) |-> LowerOf(s[k])]

startsWith(s, prefix) ==
    Len(s) >= Len(prefix) /\ SubSeq(s, 1, Len(prefix)) = prefix

TABLE == << "T", "A", "B", "L", "E" >>
CODE == << "C", "O", "D", "E" >>
sql == << "s", "q", "l" >>

\* ---------------------------------------------------------- blockRegex
\* /\[([A-Z]+)(?:=([a-zA-Z0-9_\-]+))?\](.*?)\[\/\1\]/gs     (line 73)
\* positions p, c are 1-based; index, end and lastIndex are 0-based offsets

\* the first position >= p whose character is not in set (or Len(s) + 1)
RECURSIVE RunEnd(_, _, _)
RunEnd(s, p, set) ==
    IF p <= Len(s) /\ s[p] \in set THEN RunEnd(s, p + 1, set) ELSE p

\* \[([A-Z]+)(?:=([a-zA-Z0-9_\-]+))?\]  at position p
OpenerAt(s, p) ==
    LET q == RunEnd(s, p + 1, Upper)
        r == RunEnd(s, q + 1, ParamChars)
        none == [ok |-> FALSE, tag |-> << >>, hasParam |-> FALSE,
                 param |-> << >>, next |-> 0]
    IN  IF ~(p <= Len(s) /\ s[p] = "[" /\ q > p + 1 /\ q <= Len(s)) THEN none
        ELSE IF s[q] = "]"
        THEN [ok |-> TRUE, tag |-> SubSeq(s, p + 1, q - 1), hasParam |-> FALSE,
              param |-> << >>, next |-> q + 1]
        ELSE IF s[q] = "=" /\ r > q + 1 /\ r <= Len(s) /\ s[r] = "]"
        THEN [ok |-> TRUE, tag |-> SubSeq(s, p + 1, q - 1), hasParam |-> TRUE,
              param |-> SubSeq(s, q + 1, r - 1), next |-> r + 1]
        ELSE none

\* \[\/\1\]  at position c, \1 being tag
CloserAt(s, c, tag) ==
    /\ c + Len(tag) + 2 <= Len(s)
    /\ s[c] = "["
    /\ s[c + 1] = "/"
    /\ SubSeq(s, c + 2, c + 1 + Len(tag)) = tag
    /\ s[c + 2 + Len(tag)] = "]"

NoMatch ==
    [ok |-> FALSE, index |-> 0, end |-> 0, tag |-> << >>, hasParam |-> FALSE,
     param |-> << >>, body |-> << >>, raw |-> << >>]

\* a greedy body: the last closer is taken
LastCloser(closers) == CHOOSE x \in closers : \A y \in closers : x >= y

\* (.*?) is lazy: the first closer is taken
FirstCloser(closers) == CHOOSE x \in closers : \A y \in closers : x <= y

\* the match that starts at position p
MatchAt(s, p) ==
    LET o == OpenerAt(s, p)
    IN  IF ~o.ok THEN NoMatch
        ELSE LET closers == {c \in o.next .. Len(s) : CloserAt(s, c, o.tag)}
             IN  IF closers = {} THEN NoMatch
                 ELSE LET c == FirstCloser(closers)
                          last == c + Len(o.tag) + 2
                      IN  [ok |-> TRUE, index |-> p - 1, end |-> last,
                           tag |-> o.tag, hasParam |-> o.hasParam,
                           param |-> o.param,
                           body |-> SubSeq(s, o.next, c - 1),
                           raw |-> SubSeq(s, p, last)]

\* blockRegex.exec(content) with blockRegex.lastIndex = from: the leftmost
\* match at or after offset from, or null
exec(s, from) ==
    LET starts == {p \in from + 1 .. Len(s) : MatchAt(s, p).ok}
    IN  IF starts = {} THEN NoMatch
        ELSE MatchAt(s, CHOOSE x \in starts : \A y \in starts : x <= y)

\* ------------------------------------------------------- rendered nodes
Node(kind, cls, caption, txt) ==
    [kind |-> kind, cls |-> cls, caption |-> caption, text |-> txt,
     lang |-> << >>, headers |-> << >>, rows |-> << >>]

\* a renderText without the test for the empty string
renderTextAlways(frag, txt) == Append(frag, Node("p", "", "", txt))

\* renderText (lines 81-106): nothing for "", otherwise one <p>
renderText(frag, txt) ==
    IF txt = << >> THEN frag ELSE Append(frag, Node("p", "", "", txt))

\* codeText.match(/^sql\s+/i): length of the match, 0 for no match
SqlPrefixLength(codeText) ==
    LET q == RunEnd(codeText, 4, WhiteSpace)
    IN  IF startsWith(toLowerCase(codeText), sql) /\ q > 4 THEN q - 1 ELSE 0

\* codeText.toLowerCase().startsWith('sql ')   (line 169)
HasSqlPrefix(codeText) == startsWith(toLowerCase(codeText), sql \o << " " >>)

\* the CODE branch (lines 155-180)
CodeNode(m) ==
    LET codeText == trim(m.body)
        lang == toLowerCase(m.param)
        stored == IF m.hasParam /\ lang = sql /\ HasSqlPrefix(codeText)
                                /\ SqlPrefixLength(codeText) > 0
                  THEN substring(codeText, SqlPrefixLength(codeText), Len(codeText))
                  ELSE codeText
    IN  [Node("pre", IF m.hasParam THEN "language-" ELSE "", "", stored)
            EXCEPT !.lang = lang]

\* a TABLE branch that shows the error without the block's text
TableNodeDropsRaw(m) ==
    LET parsedTableData == parseTableData(m.body)
    IN  IF parsedTableData.ok
        THEN [Node("table", "", "", << >>)
                 EXCEPT !.headers = parsedTableData.headers,
                        !.rows = parsedTableData.rows]
        ELSE Node("pre", "text-danger", "Could not parse table block:", << >>)

\* the TABLE branch (lines 118-154)
TableNode(m) ==
    LET parsedTableData == parseTableData(m.body)
    IN  IF parsedTableData.ok
        THEN [Node("table", "", "", << >>)
                 EXCEPT !.headers = parsedTableData.headers,
                        !.rows = parsedTableData.rows]
        ELSE Node("pre", "text-danger", "Could not parse table block:", m.raw)

\* an unknown tag shown with its body only
UnknownNodeBodyOnly(m) ==
    Node("pre", "text-warning", "Unknown block type:", m.body)

\* the branch for any other tag (lines 181-190)
UnknownNode(m) ==
    Node("pre", "text-warning", "Unknown block type:", m.raw)

BlockNode(m) ==
    IF m.tag = TABLE THEN TableNode(m)
    ELSE IF m.tag = CODE THEN CodeNode(m)
    ELSE UnknownNode(m)

\* -------------------------------------------------------------- actions
\* one iteration of the while loop (lines 108-192)
ExecMatch ==
    /\ rpc = "scan"
    /\ LET match == exec(content, lastIndex)
       IN  /\ match.ok
           /\ fragment' =
                 Append(renderText(fragment,
                                   trim(substring(content, lastIndex, match.index))),
                        BlockNode(match))
           /\ lastIndex' = match.end
           /\ matches' = Append(matches, match)
    /\ UNCHANGED << rpc, content, tableContent, parsedTable >>
    /\ UNCHANGED << studyVars, importVars >>

\* exec returns null: the remaining text is rendered (lines 194-199)
ExecNull ==
    /\ rpc = "scan"
    /\ ~exec(content, lastIndex).ok
    /\ fragment' = renderText(fragment,
                              trim(substring(content, lastIndex, Len(content))))
    /\ rpc' = "done"
    /\ UNCHANGED << content, lastIndex, matches, tableContent, parsedTable >>
    /\ UNCHANGED << studyVars, importVars >>

\* ------------------------------------------------------------ inputs
FOO == << "F", "O", "O" >>
Opening(tag) == << "[" >> \o tag \o << "]" >>
OpeningWith(tag, param) == << "[" >> \o tag \o << "=" >> \o param \o << "]" >>
Closing(tag) == << "[", "/" >> \o tag \o << "]" >>

MarkupPieces ==
    { Opening(FOO), Closing(FOO), Opening(TABLE), Closing(TABLE),
      << "x" >>, << " " >>, << "\n" >> }

RECURSIVE Concatenations(_, _)
Concatenations(pieces, n) ==
    IF n = 0 THEN {<< >>}
    ELSE LET shorter == Concatenations(pieces, n - 1)
         IN  shorter \cup { t \o piece : t \in shorter, piece \in pieces }

MarkupContents == Concatenations(MarkupPieces, MaxPieces)

SqlPieces == { sql, << "S", "Q", "L" >>, << " " >>, << "\n" >>, << "\t" >>, << "x" >> }

CodeOpenings ==
    { Opening(CODE), OpeningWith(CODE, sql), OpeningWith(CODE, << "S", "q", "l" >>),
      OpeningWith(CODE, << "p", "y" >>) }

SqlContents ==
    { opening \o body \o Closing(CODE) :
        opening \in CodeOpenings, body \in Concatenations(SqlPieces, MaxSqlPieces) }

RenderInit ==
    /\ StudyIdle
    /\ ImportIdle
    /\ rpc = "scan"
    /\ content \in MarkupContents \cup SqlContents
    /\ lastIndex = 0
    /\ fragment = << >>
    /\ matches = << >>
    /\ tableContent = << >>
    /\ parsedTable = NoTable

RenderNext ==
    \/ ExecMatch
    \/ ExecNull

RenderSpec == RenderInit /\ [][RenderNext]_vars

\* --------------------------------------------------- render predicates
\* the literal text t stands in s at 1-based position p
TextAt(s, p, t) == p + Len(t) - 1 <= Len(s) /\ SubSeq(s, p, p + Len(t) - 1) = t

\* some [TAG]...[/TAG] pair of the tags used in the inputs starts after
\* offset from
PairAfter(s, from) ==
    \E tag \in {FOO, TABLE, CODE} : \E p, c \in from + 1 .. Len(s) :
        /\ TextAt(s, p, Opening(tag))
        /\ c >= p + Len(tag) + 2
        /\ TextAt(s, c, Closing(tag))

LastMatch == matches[Len(matches)]
LastNode == fragment[Len(fragment)]

\* the step is one loop iteration of renderContent
MatchStep == Len(matches') = Len(matches) + 1

\* ---------------------------------------------------------------- C16
\* C16: a loop iteration whose match is a TABLE block with fewer than 2
\* non-blank body lines appends one <pre> with class text-danger whose text
\* is the block exactly as it stands in the content, never a table, and the
\* scan goes on behind the block; when renderContent ends, no marker pair
\* is left behind the last match and the remaining non-blank text is the
\* last <p>.
C16_ShortTableIsErrorBlockAndScanGoesOn ==
    /\ [][ (MatchStep /\ LastMatch'.tag = TABLE
                      /\ Len(NonBlankLines(LastMatch'.body)) < 2) =>
              /\ Len(fragment') >= 1
              /\ LastNode'.kind = "pre"
              /\ LastNode'.cls = "text-danger"
              /\ LastNode'.text = substring(content, LastMatch'.index, LastMatch'.end)
              /\ startsWith(LastNode'.text, Opening(TABLE))
              /\ LastNode'.text = Opening(TABLE) \o LastMatch'.body \o Closing(TABLE)
              /\ rpc' = "scan"
              /\ lastIndex' = LastMatch'.end ]_vars
    /\ [](rpc = "done" =>
             /\ ~PairAfter(content, lastIndex)
             /\ LET rest == trim(substring(content, lastIndex, Len(content)))
                IN  rest # << >> => LastNode = Node("p", "", "", rest))
    /\ [](Cardinality({k \in 1 .. Len(fragment) : fragment[k].kind # "p"}) = Len(matches))

\* a TABLE block with a one-line body, then another block: both rendered
C16_Witness ==
    /\ rpc = "done"
    /\ content = Opening(TABLE) \o << "x" >> \o Closing(TABLE) \o Opening(FOO) \o Closing(FOO)
    /\ Len(fragment) = 2
    /\ fragment[1].cls = "text-danger"
    /\ fragment[1].text = Opening(TABLE) \o << "x" >> \o Closing(TABLE)
    /\ fragment[2].cls = "text-warning"

\* ------------------------------------------------- balanced card text
\* a closing marker [/TAG] of any tag at position c: its tag, or << >>
ClosingTagAt(s, c) ==
    LET q == RunEnd(s, c + 2, Upper)
    IN  IF c + 3 <= Len(s) /\ s[c] = "[" /\ s[c + 1] = "/" /\ q > c + 2
           /\ q <= Len(s) /\ s[q] = "]"
        THEN SubSeq(s, c + 2, q - 1)
        ELSE << >>

GapCount(s, from, to) == IF trim(SubSeq(s, from, to)) = << >> THEN 0 ELSE 1

\* One pass over the text with a stack of open tags.  Result: balanced (every
\* closing marker closes the innermost open block and nothing stays open),
\* tops (blocks opened at depth 0), gaps (non-blank stretches of text at
\* depth 0, before, between and after the top-level blocks), selfNested (some
\* block was opened inside a block of its own tag).
RECURSIVE Walk(_, _, _, _, _, _, _)
Walk(s, p, stack, tops, gaps, gapStart, selfNested) ==
    IF p > Len(s)
    THEN [balanced |-> stack = << >>, tops |-> tops,
          gaps |-> gaps + (IF stack = << >> THEN GapCount(s, gapStart, Len(s)) ELSE 0),
          selfNested |-> selfNested]
    ELSE LET o == OpenerAt(s, p)
             closed == ClosingTagAt(s, p)
         IN  IF o.ok
             THEN Walk(s, o.next, << o.tag >> \o stack,
                       IF stack = << >> THEN tops + 1 ELSE tops,
                       IF stack = << >> THEN gaps + GapCount(s, gapStart, p - 1) ELSE gaps,
                       gapStart,
                       selfNested \/ \E k \in 1 .. Len(stack) : stack[k] = o.tag)
             ELSE IF closed # << >>
             THEN IF stack = << >> \/ Head(stack) # closed
                  THEN [balanced |-> FALSE, tops |-> tops, gaps |-> gaps,
                        selfNested |-> selfNested]
                  ELSE Walk(s, p + Len(closed) + 3, Tail(stack), tops, gaps,
                            p + Len(closed) + 3, selfNested)
             ELSE Walk(s, p + 1, stack, tops, gaps, gapStart, selfNested)

Structure(s) == Walk(s, 1, << >>, 0, 0, 1, FALSE)

\* ---------------------------------------------------------------- C17
\* C17 (as stated): for balanced card text, nesting of any kind included,
\* renderContent produces as many nodes as there are top-level blocks plus
\* non-blank gaps.
C17_BlockCountForBalancedText ==
    (rpc = "done" /\ Structure(content).balanced) =>
        Len(fragment) = Structure(content).tops + Structure(content).gaps

\* C17 (amended): for balanced card text in which no block contains a marker
\* of its own tag (markers of other tags may be nested in a body),
\* renderContent produces as many nodes as there are top-level blocks plus
\* non-blank gaps before, between and after them.
C17_BlockCountWithoutSameTagNesting ==
    (rpc = "done" /\ Structure(content).balanced /\ ~Structure(content).selfNested) =>
        /\ Len(fragment) = Structure(content).tops + Structure(content).gaps
        /\ Len(matches) = Structure(content).tops

\* a block with a block of another tag in its body, a gap and a second block
C17_Witness ==
    /\ rpc = "done"
    /\ content = Opening(FOO) \o Opening(TABLE) \o Closing(TABLE) \o Closing(FOO) \o << "x" >>
    /\ Structure(content).balanced
    /\ Structure(content).tops = 1
    /\ Structure(content).gaps = 1
    /\ Len(fragment) = 2

\* ---------------------------------------------------------------- C18
\* what the claim expects to be stored for a sql code block with this body
ExpectedSqlText(body) ==
    LET t == trim(body)
    IN  IF Len(t) >= 4 /\ toLowerCase(SubSeq(t, 1, 3)) = sql /\ t[4] \in WhiteSpace
        THEN SubSeq(t, RunEnd(t, 4, WhiteSpace), Len(t))
        ELSE t

\* C18: a CODE block stores its trimmed body, except that with a parameter
\* equal to "sql" in any case a leading s,q,l in any case followed by
\* whitespace (space, tab or newline) is removed together with that
\* whitespace.
C18_SqlPrefixStripped ==
    [][ (MatchStep /\ LastMatch'.tag = CODE) =>
            /\ LastNode'.kind = "pre"
            /\ LastNode'.text =
                  IF LastMatch'.hasParam /\ toLowerCase(LastMatch'.param) = sql
                  THEN ExpectedSqlText(LastMatch'.body)
                  ELSE trim(LastMatch'.body) ]_vars

\* ---------------------------------------------------------------- C19
\* C19: a loop iteration whose match has a tag other than TABLE and CODE
\* appends exactly one block node, a <pre> of class text-warning whose text
\* is the content from the opening "[" through the "]" of the closing
\* marker, and the scan resumes at the character behind that "]"; matches
\* never overlap.
C19_UnknownTagIsOneVerbatimWarning ==
    /\ [][ (MatchStep /\ LastMatch'.tag \notin {TABLE, CODE}) =>
              /\ LastNode'.kind = "pre"
              /\ LastNode'.cls = "text-warning"
              /\ LastNode'.text = substring(content, LastMatch'.index, LastMatch'.end)
              /\ startsWith(LastNode'.text, << "[" >> \o LastMatch'.tag)
              /\ SubSeq(LastNode'.text, Len(LastNode'.text) - Len(LastMatch'.tag) - 2,
                        Len(LastNode'.text)) = Closing(LastMatch'.tag)
              /\ Len(fragment') \in {Len(fragment) + 1, Len(fragment) + 2}
              /\ SubSeq(fragment', 1, Len(fragment)) = fragment
              /\ Len(fragment') = Len(fragment) + 2 => fragment'[Len(fragment) + 1].kind = "p"
              /\ lastIndex' = LastMatch'.index + Len(LastNode'.text)
              /\ LastMatch'.index >= lastIndex ]_vars
    /\ [](\A i \in 1 .. Len(matches) - 1 : matches[i + 1].index >= matches[i].end)

\* text, an unknown block, text: three nodes, the block verbatim
C19_Witness ==
    /\ rpc = "done"
    /\ content = << "x" >> \o Opening(FOO) \o << "x" >> \o Closing(FOO) \o << "x" >>
    /\ Len(fragment) = 3
    /\ fragment[2].cls = "text-warning"
    /\ fragment[2].text = Opening(FOO) \o << "x" >> \o Closing(FOO)
    /\ fragment[3].kind = "p"

\* ---------------------------------------------------------------- C20
\* offset (0-based) lies inside the text of one of the matches
InsideMatch(offset) ==
    \E i \in 1 .. Len(matches) : matches[i].index <= offset /\ offset < matches[i].end

\* a closing marker of tag starts at some position in from .. to
ClosingBetween(s, tag, from, to) == \E k \in from .. to : TextAt(s, k, Closing(tag))

\* C20: every match runs from an opening marker to the first closing marker
\* of the same tag behind it, whatever closing markers of other tags lie in
\* between; matches are found left to right and do not overlap, so no
\* marker inside a body starts a block; and when renderContent ends, the
\* opening markers outside all matches are exactly those with no closing
\* marker of their tag behind them.
C20_BlockEndsAtFirstSameTagCloser ==
    /\ \A i \in 1 .. Len(matches) :
          LET m == matches[i]
              o == OpenerAt(content, m.index + 1)
          IN  /\ o.ok
              /\ o.tag = m.tag
              /\ TextAt(content, m.end - Len(m.tag) - 2, Closing(m.tag))
              /\ m.end - Len(m.tag) - 2 >= o.next
              /\ ~ClosingBetween(content, m.tag, o.next, m.end - Len(m.tag) - 3)
              /\ m.body = SubSeq(content, o.next, m.end - Len(m.tag) - 3)
              /\ i > 1 => m.index >= matches[i - 1].end
    /\ rpc = "done" =>
          \A p \in 1 .. Len(content) :
              (OpenerAt(content, p).ok /\ ~InsideMatch(p - 1)) =>
                  ~ClosingBetween(content, OpenerAt(content, p).tag,
                                  OpenerAt(content, p).next, Len(content))

\* a block that runs past a closing marker of another tag, followed by an
\* opening marker that is never closed and stays text
C20_Witness ==
    /\ rpc = "done"
    /\ content = Opening(FOO) \o Closing(TABLE) \o Closing(FOO) \o Opening(TABLE)
    /\ Len(matches) = 1
    /\ matches[1].body = Closing(TABLE)
    /\ Len(fragment) = 2
    /\ fragment[2] = Node("p", "", "", Opening(TABLE))

\* ---------------------------------------------------------------- C21
\* the card sides the user can see all show card id: the front side always
\* counts once frontCardEl is shown, the back side while backCardEl is shown
Displayed(id) ==
    /\ ~hidden["frontCardEl"] => rendered["frontContentEl"] = id
    /\ ~hidden["backCardEl"] => rendered["backContentEl"] = id

\* C21: while the rating buttons are enabled during a running session the
\* card on display is the card at the current index, and a review request
\* that is issued carries the id of the card on display.
C21_SubmissionCarriesDisplayedCard ==
    /\ []((handlers /\ ~disabled["ratingButtons"] /\ currentCardIndex < Len(cards))
            => Displayed(cards[currentCardIndex + 1].id))
    /\ [][ (Len(pending') > Len(pending)) => Displayed(issued') ]_vars

\* ---------------------------------------------------------------- C22
\* C22: the index always lies in 0 .. number of cards, and a rating click
\* at Complete issues no review request and changes neither the index nor
\* the reveal flag.
C22_IndexBoundedAndCompleteAbsorbsRating ==
    /\ [](0 <= currentCardIndex /\ currentCardIndex <= Len(cards))
    /\ [][ (Complete /\ RatingStep) =>
              UNCHANGED << pending, issued, currentCardIndex, isBackVisible >> ]_vars

\* a rating click arrived after the last of three cards was reviewed
C22_Witness ==
    /\ Complete
    /\ Len(cards) = MaxCards
    /\ currentCardIndex = Len(cards)
    /\ lastOp = "rate_dropped"
    /\ pending = << >>

\* ---------------------------------------------------------------- C23
\* the submission-error message is on display
SubmissionErrorShown ==
    /\ ~hidden["errorMessageEl"]
    /\ text["errorMessageEl"] = "Error submitting review"

\* C23: once the submission-error message is shown, every later step
\* leaves it shown.
C23_SubmissionErrorStaysVisible ==
    [][ SubmissionErrorShown => SubmissionErrorShown' ]_vars

\* a review failed on the first card, the retry and all later reviews
\* succeeded, and the session is Complete with the message still shown
C23_Witness ==
    /\ SubmissionErrorShown
    /\ Complete
    /\ lastOp = "review_ok"
    /\ Len(cards) >= 2
    /\ submitted = Ids(cards)

\* ======================================================================
\* The import page script (src/frontend/import.js): handleImport and the
\* settling of its upload.  JSON texts are modelled over digits, "[", "]",
\* "," and white space: numbers and arrays; every other character makes
\* JSON.parse throw.
\* ======================================================================
MaxImportLen == 5

ImportChars == {"[", "]", "1", ",", " "}

\* white space of the JSON grammar
JsonWhite == {" ", "\n", "\t", "\r"}

\* JSON.parse(content) as a cursor over the text: the position behind the
\* value that starts at p, 0 when there is none
RECURSIVE ParseValue(_, _), ParseElements(_, _)
ParseValue(s, p) ==
    IF p > Len(s) THEN 0
    ELSE IF s[p] = "0" THEN p + 1
    ELSE IF s[p] \in Digits THEN RunEnd(s, p + 1, Digits)
    ELSE IF s[p] = "["
    THEN LET q == RunEnd(s, p + 1, JsonWhite)
         IN  IF q <= Len(s) /\ s[q] = "]" THEN q + 1 ELSE ParseElements(s, q)
    ELSE 0

\* the elements of an array from the element at p up to the closing "]"
ParseElements(s, p) ==
    LET v == ParseValue(s, p)
        q == RunEnd(s, v, JsonWhite)
    IN  IF v = 0 \/ q > Len(s) THEN 0
        ELSE IF s[q] = "]" THEN q + 1
        ELSE IF s[q] = "," THEN ParseElements(s, RunEnd(s, q + 1, JsonWhite))
        ELSE 0

\* TRUE when JSON.parse(s) returns, FALSE when it throws (line 32)
JSON_parse(s) ==
    LET v == ParseValue(s, RunEnd(s, 1, JsonWhite))
    IN  v # 0 /\ RunEnd(s, v, JsonWhite) = Len(s) + 1

\* ------------------------------------------------------------ handleImport
\* a finally block that forgets the button
ImportFinallyKeepsDisabled ==
    /\ importBtnDisabled' = importBtnDisabled
    /\ spinnerHidden' = TRUE

\* the finally block (lines 77-82)
ImportFinally ==
    /\ importBtnDisabled' = FALSE
    /\ spinnerHidden' = TRUE

\* the user types a character at the end of the textarea
TypeChar ==
    /\ ipc = "open"
    /\ Len(deckContentValue) < MaxImportLen
    /\ \E c \in ImportChars : deckContentValue' = Append(deckContentValue, c)
    /\ importOp' = "typed"
    /\ UNCHANGED << ipc, importBtnDisabled, spinnerHidden, uploads, alertShown,
                    redirectScheduled >>
    /\ UNCHANGED << studyVars, renderVars >>

\* the user deletes the last character of the textarea
DeleteChar ==
    /\ ipc = "open"
    /\ deckContentValue # << >>
    /\ deckContentValue' = SubSeq(deckContentValue, 1, Len(deckContentValue) - 1)
    /\ importOp' = "erased"
    /\ UNCHANGED << ipc, importBtnDisabled, spinnerHidden, uploads, alertShown,
                    redirectScheduled >>
    /\ UNCHANGED << studyVars, renderVars >>

\* the form is submitted and handleImport runs up to the await of fetch
\* (lines 18-52)
handleImport ==
    /\ ipc = "open"
    /\ ~importBtnDisabled
    /\ LET importContent == trim(deckContentValue)
       IN  IF importContent = << >>
           THEN /\ alertShown' = "empty"
                /\ importOp' = "abort_empty"
                /\ UNCHANGED << importBtnDisabled, spinnerHidden, uploads >>
           ELSE IF ~JSON_parse(importContent)
           THEN /\ alertShown' = "invalid"
                /\ importOp' = "abort_invalid"
                /\ UNCHANGED << importBtnDisabled, spinnerHidden, uploads >>
           ELSE /\ importBtnDisabled' = TRUE
                /\ spinnerHidden' = FALSE
                /\ uploads' = uploads + 1
                /\ importOp' = "sent"
                /\ UNCHANGED alertShown
    /\ UNCHANGED << ipc, deckContentValue, redirectScheduled >>
    /\ UNCHANGED << studyVars, renderVars >>

\* a submission attempt through the disabled import button: no submit
\* event is dispatched
SubmitDisabled ==
    /\ ipc = "open"
    /\ importBtnDisabled
    /\ importOp' = "submit_dropped"
    /\ UNCHANGED << ipc, deckContentValue, importBtnDisabled, spinnerHidden, uploads,
                    alertShown, redirectScheduled >>
    /\ UNCHANGED << studyVars, renderVars >>

\* the server answers with success (lines 53-72, then finally)
UploadSuccess ==
    /\ ipc = "open"
    /\ uploads > 0
    /\ uploads' = uploads - 1
    /\ alertShown' = "success"
    /\ deckContentValue' = << >>
    /\ redirectScheduled' = TRUE
    /\ ImportFinally
    /\ importOp' = "success"
    /\ UNCHANGED ipc
    /\ UNCHANGED << studyVars, renderVars >>

\* the server answers with an error status (lines 58-61, catch, finally)
UploadServerError ==
    /\ ipc = "open"
    /\ uploads > 0
    /\ uploads' = uploads - 1
    /\ alertShown' = "failed"
    /\ ImportFinally
    /\ importOp' = "server_error"
    /\ UNCHANGED << ipc, deckContentValue, redirectScheduled >>
    /\ UNCHANGED << studyVars, renderVars >>

\* fetch rejects, or the answer has no JSON body (lines 46, 55, catch,
\* finally)
UploadTransportError ==
    /\ ipc = "open"
    /\ uploads > 0
    /\ uploads' = uploads - 1
    /\ alertShown' = "failed"
    /\ ImportFinally
    /\ importOp' = "transport_error"
    /\ UNCHANGED << ipc, deckContentValue, redirectScheduled >>
    /\ UNCHANGED << studyVars, renderVars >>

\* the timer of the success branch fires: the page is left, and a request
\* still in flight is dropped with it (lines 69-72)
Redirect ==
    /\ ipc = "open"
    /\ redirectScheduled
    /\ ipc' = "left"
    /\ redirectScheduled' = FALSE
    /\ uploads' = 0
    /\ importOp' = "redirect"
    /\ UNCHANGED << deckContentValue, importBtnDisabled, spinnerHidden, alertShown >>
    /\ UNCHANGED << studyVars, renderVars >>

ImportInit ==
    /\ StudyIdle
    /\ RenderIdle
    /\ ipc = "open"
    /\ deckContentValue = << >>
    /\ importBtnDisabled = FALSE
    /\ spinnerHidden = TRUE
    /\ uploads = 0
    /\ alertShown = "none"
    /\ redirectScheduled = FALSE
    /\ importOp = "none"

ImportNext ==
    \/ TypeChar
    \/ DeleteChar
    \/ handleImport
    \/ SubmitDisabled
    \/ UploadSuccess
    \/ UploadServerError
    \/ UploadTransportError
    \/ Redirect

ImportSpec == ImportInit /\ [][ImportNext]_vars

\* --------------------------------------------------- import predicates
\* s without its leading and trailing JSON white space
StripWhite(s) ==
    LET a == RunEnd(s, 1, JsonWhite)
        RECURSIVE Back(_)
        Back(b) == IF b >= a /\ s[b] \in JsonWhite THEN Back(b - 1) ELSE b
    IN  SubSeq(s, a, Back(Len(s)))

\* "[" minus "]" among the first k characters of s
Depth(s, k) ==
    Cardinality({i \in 1 .. k : s[i] = "["}) - Cardinality({i \in 1 .. k : s[i] = "]"})

\* the pieces of s between its commas outside all brackets
TopLevelParts(s) ==
    LET cuts == {0, Len(s) + 1} \cup
                {k \in 1 .. Len(s) : s[k] = "," /\ Depth(s, k - 1) = 0}
    IN  { SubSeq(s, a + 1, b - 1) :
            <<a, b>> \in {c \in cuts \X cuts :
                            /\ c[1] < c[2]
                            /\ ~\E m \in cuts : c[1] < m /\ m < c[2]} }

\* t is a number or an array of the grammar, read by its structure: digits
\* without a leading zero, or brackets around nothing or around values
\* separated by commas
RECURSIVE IsJsonValue(_)
IsJsonValue(t) ==
    \/ /\ t # << >>
       /\ \A k \in 1 .. Len(t) : t[k] \in Digits
       /\ Len(t) > 1 => t[1] # "0"
    \/ /\ Len(t) >= 2
       /\ t[1] = "["
       /\ t[Len(t)] = "]"
       /\ LET inner == SubSeq(t, 2, Len(t) - 1)
          IN  \/ StripWhite(inner) = << >>
              \/ \A part \in TopLevelParts(inner) : IsJsonValue(StripWhite(part))

IsJsonText(s) == IsJsonValue(StripWhite(s))

\* ---------------------------------------------------------------- C24
\* C24: a submission sends an upload exactly when the trimmed content is
\* non-empty and a JSON text; on the open page at most one upload is in
\* flight and the import button is disabled exactly while one is; when an
\* upload settles, whatever the outcome, the button is enabled again.
C24_UploadOnlyForValidJsonAndButtonFollowsUpload ==
    /\ [](ipc = "open" =>
            /\ uploads <= 1
            /\ importBtnDisabled <=> (uploads = 1)
            /\ spinnerHidden <=> (uploads = 0))
    /\ [][ /\ (uploads' > uploads) =>
                 /\ trim(deckContentValue) # << >>
                 /\ IsJsonText(trim(deckContentValue))
                 /\ importBtnDisabled'
           /\ (importOp' \in {"abort_empty", "abort_invalid"}) =>
                 /\ trim(deckContentValue) = << >> \/ ~IsJsonText(trim(deckContentValue))
                 /\ uploads' = uploads
                 /\ ~importBtnDisabled'
           /\ (importOp' \in {"success", "server_error", "transport_error"}) =>
                 /\ uploads' = uploads - 1
                 /\ ~importBtnDisabled' ]_vars

\* a two-element array was uploaded and refused by the server; the button
\* is enabled again and the text is still in the textarea
C24_Witness ==
    /\ ipc = "open"
    /\ importOp = "server_error"
    /\ deckContentValue = << "[", "1", ",", "1", "]" >>
    /\ alertShown = "failed"
    /\ ~importBtnDisabled
    /\ uploads = 0

====
